---------------------------- MODULE Spec2Model ----------------------------
(***************************************************************************)
(* A model of KDEpy's TreeKDE estimator (src/KDEpy/TreeKDE.py): the fitted *)
(* state (data, weights), the constructor parameters (kernel, bw, norm)    *)
(* and the evaluate call, taken one source step at a time.                 *)
(*                                                                         *)
(* Reals are exact rationals [n |-> numerator, d |-> denominator > 0] in   *)
(* lowest terms.  A numpy array of shape (r, c) is [rows |-> sequence of r *)
(* rows, each a sequence of c entries, cols |-> c], so that an array with  *)
(* no rows still has a shape.                                              *)
(***************************************************************************)
EXTENDS Integers, Sequences, FiniteSets

\* ---------------------------------------------------------------- bounds
MaxN == 2        \* sample points per fit
MaxD == 2        \* dimensions
MaxM == 2        \* query points per evaluate call
MaxBw == 2       \* bandwidth values 1..MaxBw
MaxScale == 3    \* weight scaling factors 1..MaxScale

\* ------------------------------------------------------------- rationals
Abs(x) == IF x < 0 THEN -x ELSE x

Max2(a, b) == IF a >= b THEN a ELSE b

RECURSIVE GCD(_, _)
GCD(a, b) == IF b = 0 THEN a ELSE GCD(b, a % b)

\* The rational n/d (d > 0) in lowest terms.
Frac(n, d) == LET g == GCD(Abs(n), d) IN [n |-> n \div g, d |-> d \div g]

Zero == [n |-> 0, d |-> 1]
One == [n |-> 1, d |-> 1]

FAdd(a, b) == Frac(a.n * b.d + b.n * a.d, a.d * b.d)
FMul(a, b) == Frac(a.n * b.n, a.d * b.d)
FPos(a) == a.n > 0

RECURSIVE Pow(_, _)
Pow(b, e) == IF e = 0 THEN 1 ELSE b * Pow(b, e - 1)

\* Integer square root (floor).
ISqrt(m) == CHOOSE k \in 0..m : k * k <= m /\ (k + 1) * (k + 1) > m

\* ---------------------------------------------------------------- arrays
Arr(rows, cols) == [rows |-> rows, cols |-> cols]
Shape(a) == <<Len(a.rows), a.cols>>

\* a[indices]: the rows of a picked by a sequence of 1-based indices.
Take(a, indices) == Arr([k \in 1..Len(indices) |-> a.rows[indices[k]]], a.cols)

InRange(a, indices) == \A k \in 1..Len(indices) : indices[k] <= Len(a.rows)

\* a.ravel(): the entries in row-major order.
Ravel(a) ==
    [k \in 1..(Len(a.rows) * a.cols) |->
        a.rows[((k - 1) \div a.cols) + 1][((k - 1) % a.cols) + 1]]

RECURSIVE SumSeq(_)
SumSeq(s) == IF s = <<>> THEN Zero ELSE FAdd(s[1], SumSeq(Tail(s)))

RECURSIVE MaxSeq(_)
MaxSeq(s) == IF Len(s) = 1 THEN s[1] ELSE Max2(s[1], MaxSeq(Tail(s)))

RECURSIVE MinSeq(_)
MinSeq(s) == IF Len(s) = 1 THEN s[1]
             ELSE LET m == MinSeq(Tail(s)) IN IF s[1] <= m THEN s[1] ELSE m

\* np.ones_like(a) * v
FullLike(a, v) == Arr([r \in 1..Len(a.rows) |-> [c \in 1..a.cols |-> v]], a.cols)

\* np.dot of two flat sequences of the same length.
Dot(u, v) == SumSeq([k \in 1..Len(u) |-> FMul(u[k], v[k])])

\* ------------------------------------------- collaborators of TreeKDE.py
\* BaseKDE._process_sequence: a flat sequence becomes an (obs, 1) array.
ProcessSequence(s) == Arr([k \in 1..Len(s) |-> <<s[k]>>], 1)

\* The p-norm of a displacement vector, p in {1, 2}.  The modelled points
\* lie on the first axis, where the square root is exact.
PNorm(v, p) ==
    IF p = 1 THEN SumSeq([k \in 1..Len(v) |-> Frac(Abs(v[k]), 1)]).n
    ELSE ISqrt(SumSeq([k \in 1..Len(v) |-> Frac(v[k] * v[k], 1)]).n)

\* Kernel.practical_support(bw, eps): for a finite-support kernel the
\* support itself, whatever eps is; a kernel of bandwidth h is supported
\* on the distances below h.
PracticalSupport(kern, h, e) == h

\* The kernel's value at distance dist for bandwidth h in dims dimensions:
\* zero from the support radius on, positive inside it.
KernelValue(kern, dist, h, dims) ==
    LET R == PracticalSupport(kern, h, One)
    IN  IF dist >= R THEN Zero
        ELSE IF kern = "box" THEN Frac(1, Pow(2 * R, dims))
        ELSE Frac(R - dist, Pow(R, dims + 1))

\* self.kernel(x_values, bw=bw[indices]): one distance per row of x_values,
\* broadcast against the bandwidth subset, so the result has the shape of
\* the bandwidth subset (the shape line 185 asserts).
Kernel(kern, x_values, bwsub) ==
    Arr([r \in 1..Len(bwsub.rows) |->
            [c \in 1..bwsub.cols |->
                KernelValue(kern, PNorm(x_values.rows[r], 2),
                            bwsub.rows[r][c], x_values.cols)]],
        bwsub.cols)

\* ------------------------------------------------ scipy cKDTree, one leaf
\* eps * np.sqrt(obs), kept as the pair it is made of.
Slack(e, obs) == [e |-> e, obs |-> obs]

\* d > r / (1 + sl), in integers, for the slack sl = e * sqrt(obs).
BeyondShrunk(d, r, sl) ==
    IF d > r THEN TRUE
    ELSE d * d * sl.e.n * sl.e.n * sl.obs > (r - d) * (r - d) * sl.e.d * sl.e.d

\* d < r * (1 + sl), in integers.
WithinGrown(d, r, sl) ==
    IF d < r THEN TRUE
    ELSE (d - r) * (d - r) * sl.e.d * sl.e.d < r * r * sl.e.n * sl.e.n * sl.obs

Column(a, k) == [r \in 1..Len(a.rows) |-> a.rows[r][k]]

\* Distances from x to the nearest and the farthest point of the bounding
\* box of the tree's points.
MinDistance(t, x, p) ==
    PNorm([k \in 1..t.cols |->
              Max2(0, Max2(MinSeq(Column(t, k)) - x[k],
                           x[k] - MaxSeq(Column(t, k))))], p)

MaxDistance(t, x, p) ==
    PNorm([k \in 1..t.cols |->
              Max2(Abs(x[k] - MinSeq(Column(t, k))),
                   Abs(MaxSeq(Column(t, k)) - x[k]))], p)

Displacement(x, y) == [k \in 1..Len(x) |-> x[k] - y[k]]

Iota(n) == [k \in 1..n |-> k]

\* The point-by-point search of a leaf: the points within r of x.
QueryBallPointExact(t, x, r, p, sl) ==
    SelectSeq(Iota(Len(t.rows)),
              LAMBDA j : PNorm(Displacement(x, t.rows[j]), p) <= r)

\* tree.query_ball_point(x, r, p, eps) on a tree of at most leafsize points
\* (a single leaf): the leaf is skipped when its nearest point is farther
\* than r / (1 + eps), taken whole when its farthest point is nearer than
\* r * (1 + eps), and searched point by point otherwise.
QueryBallPoint(t, x, r, p, sl) ==
    IF BeyondShrunk(MinDistance(t, x, p), r, sl) THEN <<>>
    ELSE IF WithinGrown(MaxDistance(t, x, p), r, sl) THEN Iota(Len(t.rows))
    ELSE QueryBallPointExact(t, x, r, p, sl)

\* ------------------------------------------------------------ TreeKDE.fit
NoWeights == [given |-> FALSE, v |-> <<>>]
Unset == Arr(<<>>, 0)

RECURSIVE SumInts(_)
SumInts(s) == IF s = <<>> THEN 0 ELSE s[1] + SumInts(Tail(s))

\* Fault: the weights are stored as given, never divided by their sum.
NormalizeNone(a) ==
    Arr([r \in 1..Len(a.rows) |-> [c \in 1..a.cols |-> Frac(a.rows[r][c], 1)]], a.cols)

\* self.weights / np.sum(self.weights)
Normalize(a) ==
    LET total == SumInts(Ravel(a))
    IN  Arr([r \in 1..Len(a.rows) |->
                [c \in 1..a.cols |-> Frac(a.rows[r][c], total)]], a.cols)

\* The weights fit stores for data d and the weights argument w when the
\* length check passes.
FitWeights(d, w) ==
    IF w.given THEN Normalize(ProcessSequence(w.v))
    ELSE Normalize(FullLike(d, 1))

\* ------------------------------------------------------- TreeKDE.evaluate
\* The callable bandwidth of the model: one bandwidth per sample point,
\* 1 + its first coordinate, as an (obs, 1) column.
BwFunction(d) == Arr([r \in 1..Len(d.rows) |-> <<1 + d.rows[r][1]>>], 1)

\* np.ones_like(data) * column: numpy broadcasting of an (obs, 1) column.
BroadcastLike(d, col) ==
    Arr([r \in 1..Len(d.rows) |-> [c \in 1..d.cols |-> col.rows[r][1]]], d.cols)

\* The per-point bandwidth array of lines 149-155.
ResolveBandwidth(b, d) ==
    IF b.tag = "num" THEN FullLike(d, b.num)
    ELSE IF b.tag = "fn" THEN BroadcastLike(d, BwFunction(d))
    ELSE ProcessSequence(b.seq)

\* Fault: the smallest bandwidth sizes the radius.
MinimalBw(bwa) == MinSeq(Ravel(bwa))

\* np.max(bw) over the resolved array (line 162).
MaximalBw(bwa) == MaxSeq(Ravel(bwa))

\* grid_point - self.data[indices]
XValues(d, x, indices) ==
    Arr([k \in 1..Len(indices) |-> Displacement(x, d.rows[indices[k]])], d.cols)

\* One pass of the loop body (lines 172-189) for the query point x: the
\* neighbour indices and either the error raised or the dot product added
\* to the point's slot.
PointOutcome(d, w, bwa, kern, p, x, r, e) ==
    LET indices == QueryBallPoint(d, x, r, p, Slack(e, Len(d.rows)))
        bwsub == Take(bwa, indices)
        ke == Kernel(kern, XValues(d, x, indices), bwsub)
        ws == Take(w, indices)
    IN  IF ~InRange(bwa, indices)
            THEN [err |-> "IndexError", val |-> Zero, idx |-> indices]
        ELSE IF w = Unset
            THEN [err |-> "AttributeError", val |-> Zero, idx |-> indices]
        ELSE IF ~InRange(w, indices)
            THEN [err |-> "IndexError", val |-> Zero, idx |-> indices]
        ELSE IF Shape(ke) # Shape(ws) \/ Shape(ke) # Shape(bwsub)
            THEN [err |-> "AssertionError", val |-> Zero, idx |-> indices]
        ELSE [err |-> "", val |-> Dot(Ravel(ke), Ravel(ws)), idx |-> indices]

\* Fault: every step accumulates into the first slot.
AddToFirst(ev, i, v) ==
    Arr([r \in 1..Len(ev.rows) |->
            IF r = 1 THEN [c \in 1..ev.cols |-> FAdd(ev.rows[r][c], v)]
            ELSE ev.rows[r]], ev.cols)

\* evaluated[i] += v on an (M, D) array.
AddToSlot(ev, i, v) ==
    Arr([r \in 1..Len(ev.rows) |->
            IF r = i THEN [c \in 1..ev.cols |-> FAdd(ev.rows[r][c], v)]
            ELSE ev.rows[r]], ev.cols)

NoResult == Arr(<<>>, 0)

\* A whole evaluate call on fitted state (d, w): what it raises or returns.
EvaluateAll(d, w, b, kern, p, g, e) ==
    IF ~FPos(e) THEN [outcome |-> "ValueError", result |-> NoResult]
    ELSE LET bwa == ResolveBandwidth(b, d)
             r == PracticalSupport(kern, MaximalBw(bwa), e)
             out == [k \in 1..Len(g.rows) |->
                        PointOutcome(d, w, bwa, kern, p, g.rows[k], r, e)]
             bad == {k \in 1..Len(g.rows) : out[k].err # ""}
         IN  IF bad # {}
                 THEN [outcome |-> out[CHOOSE k \in bad : \A m \in bad : k <= m].err,
                       result |-> NoResult]
             ELSE [outcome |-> "returned",
                   result |-> Arr([k \in 1..Len(g.rows) |->
                                     [c \in 1..g.cols |-> out[k].val]], g.cols)]

\* ------------------------------------------------------------------ state
VARIABLES
    kernel,         \* self.kernel: the kernel's name
    bw,             \* self.bw: the bandwidth specification
    norm,           \* self.norm
    data,           \* self.data, an (obs, dims) array; NoData before fit
    weights,        \* self.weights; Unset before the first successful fit
    omitted,        \* history: the last fit call had no weights argument
    pc,             \* "idle", or "loop" inside a running evaluate call
    grid_points,    \* the query points of the last evaluate call
    eps,            \* the eps argument of the last evaluate call
    evaluated,      \* the local array the loop accumulates into
    bwv,            \* the local resolved bandwidth array
    tree,           \* the points the local cKDTree was built on
    kernel_radius,  \* the local query radius
    i,              \* the loop index (1-based)
    outcome,        \* how the last call ended
    result,         \* what the last evaluate call returned
    events,         \* history: what the last evaluate call ran before its loop
    queries         \* history: radius and neighbours of each index query

vars == <<kernel, bw, norm, data, weights, omitted, pc, grid_points, eps, evaluated,
          bwv, tree, kernel_radius, i, outcome, result, events, queries>>

ctor == <<kernel, bw, norm>>

NoData == Arr(<<>>, 0)

\* ----------------------------------------------------------------- inputs
Kernels == {"box", "tri"}
Norms == {2}
SampleCoords == {0, 1}
QueryCoords == {0, 1, 2}
RawWeights == {1, 2}
Epss == {Frac(0, 1), Frac(1, 1), Frac(1, 1000)}

Point(c, dims) == [k \in 1..dims |-> IF k = 1 THEN c ELSE 0]

SeqsUpTo(S, n) == UNION {[1..m -> S] : m \in 1..n}

\* Sample sets: 1..MaxN points on the first axis of 1..MaxD dimensions.
DataSets ==
    UNION {{Arr(rows, dims) :
               rows \in SeqsUpTo({Point(c, dims) : c \in SampleCoords}, MaxN)} :
           dims \in 1..MaxD}

\* Weights arguments for the data d: none, one raw weight per point, or
\* one weight too many.
WeightArgs(d) ==
    {NoWeights}
    \cup {[given |-> TRUE, v |-> s] : s \in [1..Len(d.rows) -> RawWeights]}
    \cup {[given |-> TRUE, v |-> [k \in 1..(Len(d.rows) + 1) |-> 1]]}

\* Bandwidth sequences: ones with MaxBw last, of every length up to one
\* more than the largest sample set.
BwSeqs == {[k \in 1..m |-> IF k = m THEN MaxBw ELSE 1] : m \in 1..(MaxN + 1)}

BwSpecs ==
    {[tag |-> "num", num |-> b, seq |-> <<>>] : b \in 1..MaxBw}
    \cup {[tag |-> "seq", num |-> 0, seq |-> s] : s \in BwSeqs}
    \cup {[tag |-> "fn", num |-> 0, seq |-> <<>>]}

Grids(dims) ==
    {Arr(rows, dims) : rows \in SeqsUpTo({Point(c, dims) : c \in QueryCoords}, MaxM)}

\* --------------------------------------------------------------- actions
\* TreeKDE.__init__ (lines 64-66); nothing is fitted yet.
Init ==
    /\ kernel \in Kernels
    /\ bw \in BwSpecs
    /\ norm \in Norms
    /\ data = NoData
    /\ weights = Unset
    /\ omitted = FALSE
    /\ pc = "idle"
    /\ grid_points = NoData
    /\ eps = Zero
    /\ evaluated = NoResult
    /\ bwv = NoData
    /\ tree = NoData
    /\ kernel_radius = 0
    /\ i = 0
    /\ outcome = "constructed"
    /\ result = NoResult
    /\ events = <<>>
    /\ queries = <<>>

\* The locals of a call that has ended.
Dropped ==
    /\ evaluated' = NoResult
    /\ bwv' = NoData
    /\ tree' = NoData
    /\ kernel_radius' = 0
    /\ i' = 0

\* fit(d, w), lines 93-108: the data is stored first; a weights argument
\* of the wrong length then raises and leaves self.weights as it was.
\* The history of the evaluate calls on the previous fit is cleared.
Fit(d, w) ==
    /\ pc = "idle"
    /\ data' = d
    /\ IF w.given /\ Len(w.v) # Len(d.rows)
           THEN /\ weights' = weights
                /\ outcome' = "ValueError"
           ELSE /\ weights' = FitWeights(d, w)
                /\ outcome' = "fitted"
    /\ omitted' = ~w.given
    /\ grid_points' = NoData
    /\ eps' = Zero
    /\ result' = NoResult
    /\ events' = <<>>
    /\ queries' = <<>>
    /\ UNCHANGED <<ctor, pc, evaluated, bwv, tree, kernel_radius, i>>

\* What lines 148-165 run, in order, for the eps argument e: the bandwidth
\* is resolved (a callable is called), the tree is built, and only then is
\* eps checked.  (Line 156 computes a maximum that line 162 overwrites.)
Prologue(b, e) ==
    <<IF b.tag = "fn" THEN "bw_called" ELSE "bw_resolved", "tree_built", "eps_checked">>

\* evaluate(g, e) up to its loop, lines 139-165.
EvaluateCall(g, e) ==
    /\ pc = "idle"
    /\ data # NoData
    /\ g.cols = data.cols
    /\ grid_points' = g
    /\ eps' = e
    /\ events' = Prologue(bw, e)
    /\ IF ~FPos(e)
           THEN /\ outcome' = "ValueError"
                /\ pc' = "idle"
                /\ Dropped
           ELSE /\ evaluated' = FullLike(g, Zero)
                /\ bwv' = ResolveBandwidth(bw, data)
                /\ tree' = data
                /\ kernel_radius' =
                       PracticalSupport(kernel, MaximalBw(ResolveBandwidth(bw, data)), e)
                /\ i' = 1
                /\ pc' = "loop"
                /\ outcome' = "running"
    /\ result' = NoResult
    /\ queries' = <<>>
    /\ UNCHANGED <<ctor, data, weights, omitted>>

\* Lines 170-189 for the query point i.
LoopStep ==
    /\ pc = "loop"
    /\ i <= Len(grid_points.rows)
    /\ LET out == PointOutcome(tree, weights, bwv, kernel, norm,
                               grid_points.rows[i], kernel_radius, eps)
       IN  /\ queries' = Append(queries, [r |-> kernel_radius, idx |-> out.idx])
           /\ IF out.err # ""
                  THEN /\ outcome' = out.err
                       /\ pc' = "idle"
                       /\ Dropped
                  ELSE /\ evaluated' = AddToSlot(evaluated, i, out.val)
                       /\ i' = i + 1
                       /\ UNCHANGED <<outcome, pc, bwv, tree, kernel_radius>>
    /\ UNCHANGED <<ctor, data, weights, omitted, grid_points, eps, result, events>>

\* Line 191: the accumulated array is returned.
Return ==
    /\ pc = "loop"
    /\ i > Len(grid_points.rows)
    /\ result' = evaluated
    /\ outcome' = "returned"
    /\ pc' = "idle"
    /\ Dropped
    /\ UNCHANGED <<ctor, data, weights, omitted, grid_points, eps, events, queries>>

Next ==
    \/ \E d \in DataSets : \E w \in WeightArgs(d) : Fit(d, w)
    \/ \E g \in Grids(data.cols), e \in Epss : EvaluateCall(g, e)
    \/ LoopStep
    \/ Return

Spec == Init /\ [][Next]_vars

\* ------------------------------------------------------------ properties
Obs == Len(data.rows)

\* An evaluate call has ended (returned or raised) since the last fit.
EvaluateEnded == pc = "idle" /\ events # <<>>

Entries(a) == {Ravel(a)[k] : k \in 1..Len(Ravel(a))}

\* Exhaustive evaluation at x: the kernel of every sample point, each with
\* its own bandwidth, dotted with every weight.
Exhaustive(x) ==
    Dot(Ravel(Kernel(kernel, XValues(data, x, Iota(Obs)), ResolveBandwidth(bw, data))),
        Ravel(weights))

\* C1: a returned Result Vector holds, at every query point, the value of
\* exhaustive evaluation over all N sample points (finite-support kernels;
\* one weight and one bandwidth per sample point).
C1_TreeEqualsExhaustive ==
    (/\ outcome = "returned"
     /\ Shape(weights) = Shape(ResolveBandwidth(bw, data))
     /\ Len(weights.rows) = Obs)
    => \A k \in 1..Len(grid_points.rows) : \A c \in 1..grid_points.cols :
           result.rows[k][c] = Exhaustive(grid_points.rows[k])

\* Sample j is among the neighbours the k-th index query returned.
Returned(k, j) == \E m \in 1..Len(queries[k].idx) : queries[k].idx[m] = j

\* C2: every index query returns every sample point whose p-norm distance
\* to the query point is at most the query radius.
C2_BallContainsAllWithinRadius ==
    \A k \in 1..Len(queries) : \A j \in 1..Obs :
        PNorm(Displacement(grid_points.rows[k], data.rows[j]), norm) <= queries[k].r
        => Returned(k, j)

\* C3: after a successful fit the stored weights sum to 1, and when the
\* weights argument was omitted there are exactly N of them, each 1/N.
C3_WeightsNormalizedUniform ==
    outcome = "fitted"
    => /\ SumSeq(Ravel(weights)) = One
       /\ (omitted => /\ Len(Ravel(weights)) = Obs
                      /\ \A k \in 1..Len(Ravel(weights)) : Ravel(weights)[k] = Frac(1, Obs))

\* C4: once a fit has succeeded, the stored weights always have one row
\* per stored sample point, whatever fit and evaluate calls follow.
C4_OneWeightPerSample ==
    weights # Unset => Len(weights.rows) = Obs

\* C5: an evaluate call with eps <= 0 raises before the bandwidth is
\* resolved (a callable bandwidth is not called) and before the index is
\* built.
C5_EpsCheckedFirst ==
    (EvaluateEnded /\ ~FPos(eps))
    => /\ outcome = "ValueError"
       /\ queries = <<>>
       /\ \A k \in 1..Len(events) : events[k] \notin {"bw_called", "bw_resolved", "tree_built"}

\* C6: with a bandwidth sequence whose length is not N, an evaluate call
\* with a valid eps raises before any query point is processed and never
\* returns a Result Vector.
C6_BandwidthLengthChecked ==
    (/\ bw.tag = "seq"
     /\ Len(bw.seq) # Obs
     /\ events # <<>>
     /\ FPos(eps))
    => /\ pc = "idle"
       /\ queries = <<>>
       /\ outcome # "returned"

\* The weights argument w with every weight multiplied by c.
Scaled(w, c) == [given |-> TRUE, v |-> [k \in 1..Len(w.v) |-> c * w.v[k]]]

ScaleArr(a, c) ==
    Arr([r \in 1..Len(a.rows) |->
            [k \in 1..a.cols |-> FMul(Frac(c, 1), a.rows[r][k])]], a.cols)

\* The weights arguments whose fit on the stored data gives the stored
\* weights.
FittedFrom ==
    {w \in WeightArgs(data) : w.given /\ Len(w.v) = Obs /\ FitWeights(data, w) = weights}

\* What the last evaluate call would have done had the weights been c * w.
Refitted(w, c) ==
    EvaluateAll(data, FitWeights(data, Scaled(w, c)), bw, kernel, norm, grid_points, eps)

\* C7 as claimed: fitting with c * w instead of w multiplies the returned
\* Result Vector by c.
C7_ScalingWeightsScalesResult ==
    (EvaluateEnded /\ outcome = "returned")
    => \A w \in FittedFrom : \A c \in 1..MaxScale :
           Refitted(w, c).result = ScaleArr(result, c)

\* C7 as amended: fitting with c * w instead of w leaves the outcome of
\* evaluate, and the Result Vector it returns, unchanged.
C7_ScalingWeightsKeepsResult ==
    EvaluateEnded
    => \A w \in FittedFrom : \A c \in 1..MaxScale :
           Refitted(w, c) = [outcome |-> outcome, result |-> result]

C7_Witness ==
    /\ EvaluateEnded
    /\ outcome = "returned"
    /\ \E w \in FittedFrom : w.v = <<1, 2>>
    /\ \E k \in 1..Len(result.rows) : FPos(result.rows[k][1])

\* C8: every index query of one evaluate call uses the same radius, the
\* practical support of the largest resolved bandwidth.
C8_RadiusFromMaximalBandwidth ==
    \A k \in 1..Len(queries) :
        \E b \in Entries(ResolveBandwidth(bw, data)) :
            /\ \A b2 \in Entries(ResolveBandwidth(bw, data)) : b2 <= b
            /\ queries[k].r = PracticalSupport(kernel, b, eps)

C8_Witness ==
    /\ Len(queries) = 2
    /\ outcome = "returned"
    /\ \E b \in Entries(ResolveBandwidth(bw, data)) : b # queries[1].r
    /\ queries[1].idx # <<>>

\* C9: on a fitted estimator, a query point whose index query returns no
\* neighbour raises nothing and has 0 in its result slot.
C9_EmptyNeighbourhoodIsZero ==
    weights # Unset
    => \A k \in 1..Len(queries) :
           queries[k].idx = <<>>
           => /\ ~(k = Len(queries) /\ pc = "idle" /\ outcome # "returned")
              /\ (pc = "loop" => \A c \in 1..evaluated.cols : evaluated.rows[k][c] = Zero)
              /\ (outcome = "returned" => \A c \in 1..result.cols : result.rows[k][c] = Zero)

\* The value of the slot of query point x: a function of x and of the
\* fitted state, the bandwidth specification and eps alone.
SlotValue(x) ==
    PointOutcome(data, weights, ResolveBandwidth(bw, data), kernel, norm, x,
                 PracticalSupport(kernel, MaximalBw(ResolveBandwidth(bw, data)), eps),
                 eps).val

\* C10: an evaluate call leaves the fitted data and weights unchanged; a
\* loop step writes only its own slot; every slot written so far, and
\* every slot of the returned vector, holds the value that depends on its
\* own query point alone, and the slots not reached yet hold 0.
C10_StepsWriteOwnSlot ==
    /\ [](pc = "loop" =>
            \A k \in 1..Len(grid_points.rows) : \A c \in 1..grid_points.cols :
                evaluated.rows[k][c] =
                    IF k < i THEN SlotValue(grid_points.rows[k]) ELSE Zero)
    /\ [](outcome = "returned" =>
            \A k \in 1..Len(grid_points.rows) : \A c \in 1..grid_points.cols :
                result.rows[k][c] = SlotValue(grid_points.rows[k]))
    /\ [][events' # <<>> => (data' = data /\ weights' = weights)]_vars
    /\ [][(pc = "loop" /\ pc' = "loop")
            => \A k \in 1..Len(evaluated.rows) : k # i => evaluated'.rows[k] = evaluated.rows[k]]_vars

C10_Witness ==
    /\ outcome = "returned"
    /\ Len(result.rows) = 2
    /\ FPos(result.rows[1][1])
    /\ FPos(result.rows[2][1])
    /\ result.rows[1] # result.rows[2]
=============================================================================
